---- MODULE Spec2Model ----
(***************************************************************************)
(* Reminder scheduling and persistence of smolassistant.                   *)
(*                                                                         *)
(* The model covers ReminderService (tools/reminder/service.py), the       *)
(* process-wide job registry of the `schedule` library it drives, the      *)
(* SQLite tables one_time_reminders / recurring_reminders, the scheduler   *)
(* threads spawned by start(), and the agent tool cancel_reminder          *)
(* (tools/reminder/reminder_tool.py) that works on the same registry.      *)
(*                                                                         *)
(* Time is a discrete wall clock `now`.  A caller thread executes the      *)
(* public operations; each operation is split at the points where another  *)
(* thread can observe its intermediate state (job registered but row not   *)
(* yet written, and so on).  Strings that the code parses (interval,       *)
(* time_spec) are sequences of one-character strings so that lower(),      *)
(* split(), isdigit(), endswith() and int() are computed, not assumed.     *)
(*                                                                         *)
(* The service is constructed with a reminder_queue, so that the delivery  *)
(* callback exists.  A job created with a non-positive interval gets       *)
(* next_run = now + interval, as Job._schedule_next_run of `schedule`      *)
(* computes it, and is due at the next run_pending.                        *)
(***************************************************************************)
EXTENDS Integers, Sequences, FiniteSets, TLC

(***************************************************************************)
(* Bounds of the model.                                                    *)
(***************************************************************************)
MaxTime == 1

MaxReminders == 1

MaxThreads == 2

(* calls of public operations plus store faults in one run *)
MaxEvents == 4

\* Number of reminders the set_reminder tool may create in ListSpec.
MaxListed == 2

\* Telegram users that write to the bot, worker threads that run its
\* handlers, and messages received in TelegramSpec.
MaxUsers == 2

MaxHandlers == 2

MaxMessages == 3

(* Every next_run beyond the horizon is the same instant "not in this run" *)
Far == MaxTime + 1

Min(a, b) == IF a < b THEN a ELSE b

(***************************************************************************)
(* Strings as sequences of characters.                                     *)
(***************************************************************************)
UpperLetters ==
    <<"A","B","C","D","E","F","G","H","I","J","K","L","M",
      "N","O","P","Q","R","S","T","U","V","W","X","Y","Z">>

LowerLetters ==
    <<"a","b","c","d","e","f","g","h","i","j","k","l","m",
      "n","o","p","q","r","s","t","u","v","w","x","y","z">>

Digits == <<"0","1","2","3","4","5","6","7","8","9">>

LowerChar(c) ==
    IF \E i \in 1..26 : UpperLetters[i] = c
    THEN LowerLetters[CHOOSE i \in 1..26 : UpperLetters[i] = c]
    ELSE c

(* str.lower() *)
Lower(s) == [i \in 1..Len(s) |-> LowerChar(s[i])]

IsDigitChar(c) == \E i \in 1..10 : Digits[i] = c

DigitVal(c) == (CHOOSE i \in 1..10 : Digits[i] = c) - 1

(* str.isdigit(): non-empty and every character a digit *)
IsDigit(s) == Len(s) > 0 /\ \A i \in 1..Len(s) : IsDigitChar(s[i])

RECURSIVE StrToInt(_)
(* int(s) for a string of digits *)
StrToInt(s) ==
    IF Len(s) = 0 THEN 0
    ELSE 10 * StrToInt(SubSeq(s, 1, Len(s) - 1)) + DigitVal(s[Len(s)])

RECURSIVE SplitFrom(_, _, _)
SplitFrom(s, i, word) ==
    IF i > Len(s)
    THEN IF Len(word) > 0 THEN <<word>> ELSE <<>>
    ELSE IF s[i] = " "
         THEN (IF Len(word) > 0 THEN <<word>> ELSE <<>>) \o SplitFrom(s, i + 1, <<>>)
         ELSE SplitFrom(s, i + 1, Append(word, s[i]))

(* str.split(): split on runs of whitespace, no empty words *)
Split(s) == SplitFrom(s, 1, <<>>)

(* str.endswith('s') *)
EndsWithS(s) == Len(s) > 0 /\ s[Len(s)] = "s"

(* unit[:-1] *)
DropLast(s) == SubSeq(s, 1, Len(s) - 1)

(***************************************************************************)
(* Interval and time_spec literals.                                        *)
(***************************************************************************)
S_second == <<"s","e","c","o","n","d">>
S_minute == <<"m","i","n","u","t","e">>
S_hour == <<"h","o","u","r">>
S_day == <<"d","a","y">>
S_monday == <<"m","o","n","d","a","y">>
S_tuesday == <<"t","u","e","s","d","a","y">>
S_wednesday == <<"w","e","d","n","e","s","d","a","y">>
S_thursday == <<"t","h","u","r","s","d","a","y">>
S_friday == <<"f","r","i","d","a","y">>
S_saturday == <<"s","a","t","u","r","d","a","y">>
S_sunday == <<"s","u","n","d","a","y">>
S_fortnight == <<"f","o","r","t","n","i","g","h","t">>
S_2_seconds == <<"2"," ","s","e","c","o","n","d","s">>
S_2_fortnights == <<"2"," ","f","o","r","t","n","i","g","h","t","s">>
S_0900 == <<"0","9",":","0","0">>
S_empty == <<>>

Weekdays ==
    {S_monday, S_tuesday, S_wednesday, S_thursday, S_friday, S_saturday, S_sunday}

(* Seconds in one unit of the schedule library *)
SecondsPerMinute == 60
SecondsPerHour == 3600
SecondsPerDay == 86400
SecondsPerWeek == 604800

UnitSeconds(unit) ==
    CASE unit = "seconds" -> 1
      [] unit = "minutes" -> SecondsPerMinute
      [] unit = "hours" -> SecondsPerHour
      [] unit = "days" -> SecondsPerDay
      [] unit = "weeks" -> SecondsPerWeek

(***************************************************************************)
(* Job.at(time_str) of the schedule library: which time strings a unit     *)
(* accepts.  Anything else raises ScheduleValueError.                      *)
(***************************************************************************)
IsSixtyPair(s, i) ==
    /\ i + 1 <= Len(s)
    /\ s[i] \in {"0","1","2","3","4","5"}
    /\ IsDigitChar(s[i + 1])

(* "HH:MM" with HH <= 23 *)
IsHHMM(s) ==
    /\ Len(s) = 5
    /\ s[1] \in {"0","1","2"} /\ IsDigitChar(s[2])
    /\ StrToInt(SubSeq(s, 1, 2)) <= 23
    /\ s[3] = ":"
    /\ IsSixtyPair(s, 4)

(* ":MM" *)
IsColonPair(s) == Len(s) = 3 /\ s[1] = ":" /\ IsSixtyPair(s, 2)

AtAccepts(unit, weekday, time_spec) ==
    CASE unit = "days" \/ weekday -> IsHHMM(time_spec)
      [] unit = "hours" -> IsColonPair(time_spec)
      [] unit = "minutes" -> IsColonPair(time_spec)
      [] OTHER -> FALSE

(***************************************************************************)
(* The interval grammar of create_recurring_reminder.  The result says     *)
(* whether a job is built ("job"), no job is built ("none"), or the        *)
(* schedule library raises ("raise"); for a job it gives the period in     *)
(* seconds and whether the first run is pinned to a clock time.            *)
(***************************************************************************)
NoJob == [res |-> "none", period |-> 0, at |-> FALSE]

Raises == [res |-> "raise", period |-> 0, at |-> FALSE]

MkJob(count, unit, at) ==
    [res |-> "job", period |-> Min(count * UnitSeconds(unit), Far), at |-> at]

(* a lookup that falls back to seconds for a name it does not know *)
IntervalMethod_Default(name) ==
    CASE name = S_second -> "seconds"
      [] name = S_minute -> "minutes"
      [] name = S_hour -> "hours"
      [] name = S_day -> "days"
      [] name \in Weekdays -> "weeks"
      [] OTHER -> "seconds"

(* interval_methods.get(interval.lower()) *)
IntervalMethod(name) ==
    CASE name = S_second -> "seconds"
      [] name = S_minute -> "minutes"
      [] name = S_hour -> "hours"
      [] name = S_day -> "days"
      [] name \in Weekdays -> "weeks"
      [] OTHER -> "none"

CountedUnit(unit) ==
    CASE unit = S_second -> "seconds"
      [] unit = S_minute -> "minutes"
      [] unit = S_hour -> "hours"
      [] unit = S_day -> "days"
      [] OTHER -> "none"

ParseInterval(interval, time_spec) ==
    LET interval_parts == Split(Lower(interval))
    IN  IF Len(interval_parts) = 2 /\ IsDigit(interval_parts[1])
        THEN LET count == StrToInt(interval_parts[1])
                 unit0 == interval_parts[2]
                 unit == IF EndsWithS(unit0) THEN DropLast(unit0) ELSE unit0
             IN  IF CountedUnit(unit) = "none"
                 THEN NoJob
                 ELSE MkJob(count, CountedUnit(unit), FALSE)
        ELSE LET method == IntervalMethod(Lower(interval))
             IN  IF method = "none"
                 THEN NoJob
                 ELSE IF Len(time_spec) > 0
                      THEN IF AtAccepts(method, Lower(interval) \in Weekdays, time_spec)
                           THEN MkJob(1, method, TRUE)
                           ELSE Raises
                      ELSE MkJob(1, method, FALSE)

(***************************************************************************)
(* The job registry of the schedule library (schedule.jobs).  A job is     *)
(* [jid, tags, rid, kind, next_run, period]: jid is the identity of the    *)
(* Job object, rid the reminder_id bound into its job function, kind the   *)
(* closure it runs ("reminder": one-time, "recurring").                    *)
(***************************************************************************)
MkOneTimeJob(jid, rid, seconds, t) ==
    [jid |-> jid, tags |-> {"reminder", rid}, rid |-> rid, kind |-> "reminder",
     next_run |-> Min(t + seconds, Far), period |-> seconds]

MkRecurringJob(jid, rid, period, next_run) ==
    [jid |-> jid, tags |-> {"recurring", rid}, rid |-> rid, kind |-> "recurring",
     next_run |-> next_run, period |-> period]

(* Job.should_run *)
ShouldRun(j, t) == t >= j.next_run

RECURSIVE InsertSorted(_, _)
InsertSorted(sorted, j) ==
    IF Len(sorted) = 0 THEN <<j>>
    ELSE IF j.next_run < Head(sorted).next_run
         THEN <<j>> \o sorted
         ELSE <<Head(sorted)>> \o InsertSorted(Tail(sorted), j)

RECURSIVE SortJobs(_)
(* sorted(runnable_jobs): stable, by next_run *)
SortJobs(js) ==
    IF Len(js) = 0 THEN <<>>
    ELSE InsertSorted(SortJobs(SubSeq(js, 1, Len(js) - 1)), js[Len(js)])

(* the jobs run_pending is going to run, in the order it runs them *)
RunnableJobs(js, t) == SortJobs(SelectSeq(js, LAMBDA j : ShouldRun(j, t)))

(* a schedule.clear(tag) that removes nothing *)
ClearTag_Keep(js, tag) == js

(* schedule.clear(tag) *)
ClearTag(js, tag) == SelectSeq(js, LAMBDA j : tag \notin j.tags)

(* schedule.get_jobs(tag) *)
GetJobs(js, tag) == SelectSeq(js, LAMBDA j : tag \in j.tags)

(* Scheduler.cancel_job(job): remove that Job object if it is still listed *)
CancelJob(js, jid) == SelectSeq(js, LAMBDA j : j.jid # jid)

(* a run that drops the job it has run, as for a one-time job *)
Reschedule_Once(js, jid, t) == SelectSeq(js, LAMBDA j : j.jid # jid)

(* Job._schedule_next_run after a run, for a job that is still listed *)
Reschedule(js, jid, t) ==
    [i \in 1..Len(js) |->
        IF js[i].jid = jid
        THEN [js[i] EXCEPT !.next_run = Min(t + js[i].period, Far)]
        ELSE js[i]]

JobTags(js) == UNION {js[i].tags : i \in 1..Len(js)}

JobRids(js) == {js[i].rid : i \in 1..Len(js)}


(***************************************************************************)
(* Reminder ids.  The code draws a uuid4; the model draws the next number. *)
(***************************************************************************)
OneTimeId(n) == "reminder_" \o ToString(n)

RecurringId(n) == "recurring_" \o ToString(n)

IdBound == IF MaxListed > MaxReminders THEN MaxListed ELSE MaxReminders

OneTimeIds == {OneTimeId(n) : n \in 1..IdBound}

RecurringIds == {RecurringId(n) : n \in 1..MaxReminders}

AllIds == OneTimeIds \cup RecurringIds

IdNum(id) == CHOOSE n \in 1..MaxReminders : id \in {OneTimeId(n), RecurringId(n)}

(***************************************************************************)
(* The two SQLite tables, as sets of rows keyed by id.                     *)
(***************************************************************************)
HasRow(table, id) == \E r \in table : r.id = id

(* INSERT OR REPLACE *)
Upsert(table, row) == {r \in table : r.id # row.id} \cup {row}

(* DELETE ... WHERE id = ? *)
DeleteRow(table, id) == {r \in table : r.id # id}

RECURSIVE RowsInOrder(_)
(* cursor.fetchall(): the rows in rowid order, which is creation order *)
RowsInOrder(table) ==
    IF table = {} THEN <<>>
    ELSE LET first == CHOOSE r \in table : \A q \in table : IdNum(r.id) <= IdNum(q.id)
         IN  <<first>> \o RowsInOrder(table \ {first})

(* What a statement on a fresh connection can do: succeed, fail inside the
   try block with sqlite3.Error (caught), or fail in sqlite3.connect, which
   is outside the try block and propagates. *)
StoreOutcomes == {"ok", "error", "raise"}

(* the outcomes left once the run has used up its events *)
Outcomes(n) == IF n < MaxEvents THEN StoreOutcomes ELSE {"ok"}

Fault(n, outcome) == IF outcome = "ok" THEN n ELSE n + 1

(***************************************************************************)
(* Decisions of the service, one operator per condition in the code.       *)
(***************************************************************************)
(* start(): if not self._running *)
ShouldStart(r) == ~r

(* a stop() that does not test the flag *)
ShouldStop_Always(r) == TRUE

(* stop(): if self._running *)
ShouldStop(r) == r

(* a test that lets a due time equal to now through *)
PersistOneTime_NotNegative(due_given, seconds) == due_given /\ seconds >= 0

(* create_one_time_reminder: if due_time and seconds_until_due > 0 *)
PersistOneTime(due_given, seconds) == due_given /\ seconds > 0

(* a reload that takes every row as still due *)
StillDue_Always(due, t) == TRUE

(* _load_one_time_reminders: if due_time > now *)
StillDue(due, t) == due > t

(***************************************************************************)
(* Inputs.                                                                 *)
(***************************************************************************)
(* due_time of a create call, relative to the clock at the call *)
DueOffsets == {-1, 0, 1}

RecurringInputs ==
    { [interval |-> S_second, time_spec |-> S_empty],
      [interval |-> S_fortnight, time_spec |-> S_empty],
      [interval |-> S_2_fortnights, time_spec |-> S_empty] }

(* Inputs of the interval grammar on its own: counts, unit words singular
   and plural, lower case and capitalised, bare units, a weekday, and
   time_spec values that are empty, well formed and malformed. *)
S_week == <<"w","e","e","k">>
S_0930 == <<"0","9",":","3","0">>
S_c30 == <<":","3","0">>
S_2500 == <<"2","5",":","0","0">>

Capitalised(s) ==
    <<UpperLetters[CHOOSE i \in 1..26 : LowerLetters[i] = s[1]]>> \o Tail(s)

UnitWords == {S_second, S_minute, S_hour, S_day, S_week}

Counts == {<<"0">>, <<"1">>, <<"2">>, <<"1","0">>}

CountedIntervals ==
    { n \o <<" ">> \o w :
        n \in Counts,
        w \in UNION {{u, Append(u, "s"), Capitalised(u), Append(Capitalised(u), "s")} :
                        u \in UnitWords} }

BareIntervals ==
    {S_second, S_minute, S_hour, S_day, S_monday, Capitalised(S_day), S_fortnight}

TimeSpecs == {S_empty, S_0930, S_c30, S_2500}

ParseInputs ==
    [interval : CountedIntervals \cup BareIntervals, time_spec : TimeSpecs]

(* what create_recurring_reminder makes of each of these inputs *)
Parsed ==
    [inp \in RecurringInputs \cup ParseInputs |->
        ParseInterval(inp.interval, inp.time_spec)]

(***************************************************************************)
(* State.                                                                  *)
(***************************************************************************)
VARIABLES
    now,                  \* the wall clock, in seconds
    running,              \* self._running
    stop_event,           \* the Event self._stop_event refers to: none, clear, set
    jobs,                 \* schedule.jobs, the process-wide job list
    one_time_reminders,   \* table one_time_reminders
    recurring_reminders,  \* table recurring_reminders
    threads,              \* the scheduler threads spawned by start()
    caller,               \* position and locals of the calling thread
    ret,                  \* what the last public operation returned
    next_id,              \* number of the next id to draw
    delivered,            \* history: callback invocations per reminder id
    hist,                 \* history: how each reminder id was created, and
                          \* whether it was since cancelled or met a fault
    pre_stop,             \* history: reminder ids in the schedule at stop()
    reload_fired,         \* history: ids delivered by the reload of start()
    events,               \* number of calls made and store faults met so far
    telegram              \* the Telegram bridge: its authorized user id, the
                          \* message queue and its handler threads

vars ==
    <<now, running, stop_event, jobs, one_time_reminders, recurring_reminders,
      threads, caller, ret, next_id, delivered, hist, pre_stop, reload_fired,
      events, telegram>>

Threads == 1..MaxThreads

NoThread == [pc |-> "none", todo |-> <<>>, stage |-> "none"]

Sleeping == [pc |-> "sleep", todo |-> <<>>, stage |-> "none"]

Idle ==
    [pc |-> "idle", id |-> "", interval |-> <<>>, time_spec |-> <<>>,
     due |-> 0, rows |-> <<>>, after_stop |-> FALSE]

NoRet == [op |-> "none", id |-> "", job |-> FALSE, status |-> "ok", store |-> "none"]

(* the Telegram bridge before create_telegram_bot is called; authorized 0
   stands for None *)
NoTelegram ==
    [created |-> FALSE, authorized |-> 0, saved |-> 0, queue |-> <<>>,
     handlers |-> <<>>, received |-> 0]

(* identity of a new Job object: one no live reference uses *)
UsedJids ==
    {jobs[i].jid : i \in 1..Len(jobs)}
    \cup UNION {{threads[t].todo[i].jid : i \in 1..Len(threads[t].todo)} : t \in Threads}

FreshJid == CHOOSE n \in 1..(Cardinality(UsedJids) + 1) : n \notin UsedJids

Bump(d, id) == [d EXCEPT ![id] = Min(@ + 1, 2)]

(* history: these reminders met a stop, a crash or a store failure *)
Taint(h, ids) ==
    [id \in DOMAIN h |->
        IF id \in ids /\ h[id].status = "clean"
        THEN [h[id] EXCEPT !.status = "tainted"]
        ELSE h[id]]

(* history: cancel_reminder has returned for these reminders *)
MarkCancelled(h, ids) ==
    [id \in DOMAIN h |->
        IF id \in ids THEN [h[id] EXCEPT !.status = "cancelled"] ELSE h[id]]

Init ==
    /\ now = 0
    /\ running = FALSE
    /\ stop_event = "none"
    /\ jobs = <<>>
    /\ one_time_reminders = {}
    /\ recurring_reminders = {}
    /\ threads = [t \in Threads |-> NoThread]
    /\ caller = Idle
    /\ ret = NoRet
    /\ next_id = 1
    /\ delivered = [id \in AllIds |-> 0]
    /\ hist = [id \in {} |-> 0]
    /\ pre_stop = {}
    /\ reload_fired = {}
    /\ events = 0
    /\ telegram = NoTelegram

(***************************************************************************)
(* The clock.                                                              *)
(***************************************************************************)
Tick ==
    /\ now < MaxTime
    /\ now' = now + 1
    /\ UNCHANGED <<running, stop_event, jobs, one_time_reminders,
                   recurring_reminders, threads, caller, ret, next_id,
                   delivered, hist, pre_stop, reload_fired>>
    /\ UNCHANGED events
    /\ UNCHANGED telegram

(***************************************************************************)
(* A scheduler thread: _run_continuously.  Between two iterations the      *)
(* thread is asleep; an iteration tests the stop event and, in             *)
(* run_pending, takes the sorted list of the jobs that are due.  The       *)
(* thread then runs those Job objects one after the other, whatever        *)
(* happens to schedule.jobs in the meantime.                               *)
(***************************************************************************)
Crashed(todo) ==
    [pc |-> "crashed", todo |-> <<>>,
     stage |-> IF Len(todo) > 1 THEN "dropped" ELSE "none"]

(* the thread goes on to the next job of its list, or to sleep *)
Advance(th) ==
    IF Len(th.todo) = 1 THEN Sleeping
    ELSE [pc |-> "run", todo |-> Tail(th.todo), stage |-> "call"]

Poll(t) ==
    /\ threads[t].pc = "sleep"
    /\ IF stop_event = "set"
       THEN threads' = [threads EXCEPT ![t] = NoThread]
       ELSE LET due == RunnableJobs(jobs, now)
            IN  threads' = [threads EXCEPT ![t] =
                    IF Len(due) = 0 THEN Sleeping
                    ELSE [pc |-> "run", todo |-> due, stage |-> "call"]]
    /\ UNCHANGED <<now, running, stop_event, jobs, one_time_reminders,
                   recurring_reminders, caller, ret, next_id, delivered,
                   hist, pre_stop, reload_fired>>
    /\ UNCHANGED events
    /\ UNCHANGED telegram

(* reminder_job: self._callback_fn(formatted_message).  The recurring
   closure ends here: Job.run reschedules the job if it is still listed. *)
FireCall(t) ==
    /\ threads[t].pc = "run"
    /\ threads[t].stage = "call"
    /\ LET j == Head(threads[t].todo)
       IN  /\ delivered' = Bump(delivered, j.rid)
           /\ IF j.kind = "reminder"
              THEN /\ threads' = [threads EXCEPT ![t].stage = "clear"]
                   /\ UNCHANGED jobs
              ELSE /\ threads' = [threads EXCEPT ![t] = Advance(threads[t])]
                   /\ jobs' = Reschedule(jobs, j.jid, now)
    /\ UNCHANGED <<now, running, stop_event, one_time_reminders,
                   recurring_reminders, caller, ret, next_id, hist, pre_stop,
                   reload_fired>>
    /\ UNCHANGED events
    /\ UNCHANGED telegram

(* one-time reminder_job: delete_one_time_reminder, schedule.clear(id) *)
FireClear(t) ==
    /\ threads[t].pc = "run"
    /\ threads[t].stage = "clear"
    /\ jobs' = ClearTag(jobs, Head(threads[t].todo).rid)
    /\ threads' = [threads EXCEPT ![t].stage = "delete"]
    /\ UNCHANGED <<now, running, stop_event, one_time_reminders,
                   recurring_reminders, caller, ret, next_id, delivered,
                   hist, pre_stop, reload_fired>>
    /\ UNCHANGED events
    /\ UNCHANGED telegram

(* one-time reminder_job: delete_one_time_reminder, the DELETE statement;
   then the closure returns CancelJob and _run_job cancels the Job object *)
FireDelete(t) ==
    /\ threads[t].pc = "run"
    /\ threads[t].stage = "delete"
    /\ LET j == Head(threads[t].todo)
       IN  \E outcome \in Outcomes(events) :
            /\ events' = Fault(events, outcome)
            /\ CASE outcome = "ok" ->
                        /\ one_time_reminders' = DeleteRow(one_time_reminders, j.rid)
                        /\ threads' = [threads EXCEPT ![t] = Advance(threads[t])]
                        /\ jobs' = CancelJob(jobs, j.jid)
                        /\ UNCHANGED hist
                   [] outcome = "error" ->
                        /\ threads' = [threads EXCEPT ![t] = Advance(threads[t])]
                        /\ jobs' = CancelJob(jobs, j.jid)
                        /\ hist' = Taint(hist, {j.rid})
                        /\ UNCHANGED one_time_reminders
                   [] outcome = "raise" ->
                        /\ threads' = [threads EXCEPT ![t] = Crashed(threads[t].todo)]
                        /\ hist' = Taint(hist, DOMAIN hist)
                        /\ UNCHANGED <<one_time_reminders, jobs>>
    /\ UNCHANGED <<now, running, stop_event, recurring_reminders, caller, ret,
                   next_id, delivered, pre_stop, reload_fired>>
    /\ UNCHANGED telegram

(***************************************************************************)
(* create_one_time_reminder(message, due_time=...), called from outside.   *)
(* The job is registered first; the row is written afterwards.             *)
(***************************************************************************)
NewHist(seconds, due, r) ==
    [seconds |-> seconds, due |-> due,
     status |-> IF r THEN "clean" ELSE "tainted", on_running |-> r]

CreateOneTime(off) ==
    /\ caller.pc = "idle"
    /\ events < MaxEvents
    /\ events' = events + 1
    /\ next_id <= MaxReminders
    /\ LET id == OneTimeId(next_id)
           due == now + off
           seconds == due - now
       IN  /\ jobs' = Append(jobs, MkOneTimeJob(FreshJid, id, seconds, now))
           /\ hist' = hist @@ (id :> NewHist(seconds, due, running))
           /\ IF PersistOneTime(TRUE, seconds)
              THEN /\ caller' = [Idle EXCEPT !.pc = "create_write", !.id = id,
                                             !.due = due]
                   /\ UNCHANGED ret
              ELSE /\ caller' = Idle
                   /\ ret' = [NoRet EXCEPT !.op = "create_one_time", !.id = id,
                                           !.job = TRUE]
    /\ next_id' = next_id + 1
    /\ UNCHANGED <<now, running, stop_event, one_time_reminders,
                   recurring_reminders, threads, delivered, pre_stop,
                   reload_fired>>
    /\ UNCHANGED telegram

CreateOneTimeWrite ==
    /\ caller.pc = "create_write"
    /\ \E outcome \in Outcomes(events) :
          /\ events' = Fault(events, outcome)
          /\ one_time_reminders' =
                 IF outcome = "ok"
                 THEN Upsert(one_time_reminders,
                             [id |-> caller.id, due_time |-> caller.due])
                 ELSE one_time_reminders
          /\ hist' = IF outcome = "ok" THEN hist ELSE Taint(hist, {caller.id})
          /\ ret' = [NoRet EXCEPT !.op = "create_one_time", !.id = caller.id,
                                  !.job = (outcome # "raise"),
                                  !.status = IF outcome = "raise" THEN "raised" ELSE "ok",
                                  !.store = outcome]
    /\ caller' = Idle
    /\ UNCHANGED <<now, running, stop_event, jobs, recurring_reminders, threads,
                   next_id, delivered, pre_stop, reload_fired>>
    /\ UNCHANGED telegram

(***************************************************************************)
(* create_recurring_reminder(message, interval=..., time_spec=...).        *)
(***************************************************************************)
(* Job.next_run after do(): one period from now, or the next time the
   clock shows the at-time, which may be any instant within the period *)
FirstRuns(p, t) ==
    IF p.at THEN {Min(n, Far) : n \in (t + 1)..(t + p.period)}
    ELSE {Min(t + p.period, Far)}

CreateRecurring(inp) ==
    /\ caller.pc = "idle"
    /\ events < MaxEvents
    /\ events' = events + 1
    /\ next_id <= MaxReminders
    /\ Len(inp.interval) > 0
    /\ LET id == RecurringId(next_id)
           p == Parsed[inp]
       IN  CASE p.res = "job" ->
                  /\ \E nr \in FirstRuns(p, now) :
                        jobs' = Append(jobs, MkRecurringJob(FreshJid, id, p.period, nr))
                  /\ hist' = hist @@ (id :> NewHist(0, 0, running))
                  /\ caller' = [Idle EXCEPT !.pc = "rec_write", !.id = id,
                                            !.interval = inp.interval,
                                            !.time_spec = inp.time_spec]
                  /\ next_id' = next_id + 1
                  /\ UNCHANGED ret
             [] p.res = "none" ->
                  /\ ret' = [NoRet EXCEPT !.op = "create_recurring", !.id = id,
                                          !.status = "rejected"]
                  /\ UNCHANGED <<jobs, hist, caller, next_id>>
             [] p.res = "raise" ->
                  /\ ret' = [NoRet EXCEPT !.op = "create_recurring", !.id = id,
                                          !.status = "raised"]
                  /\ UNCHANGED <<jobs, hist, caller, next_id>>
    /\ UNCHANGED <<now, running, stop_event, one_time_reminders,
                   recurring_reminders, threads, delivered, pre_stop,
                   reload_fired>>
    /\ UNCHANGED telegram

CreateRecurringWrite ==
    /\ caller.pc = "rec_write"
    /\ \E outcome \in Outcomes(events) :
          /\ events' = Fault(events, outcome)
          /\ recurring_reminders' =
                 IF outcome = "ok"
                 THEN Upsert(recurring_reminders,
                             [id |-> caller.id, interval |-> caller.interval,
                              time_spec |-> caller.time_spec])
                 ELSE recurring_reminders
          /\ hist' = IF outcome = "ok" THEN hist ELSE Taint(hist, {caller.id})
          /\ ret' = [NoRet EXCEPT !.op = "create_recurring", !.id = caller.id,
                                  !.job = (outcome # "raise"),
                                  !.status = IF outcome = "raise" THEN "raised" ELSE "ok",
                                  !.store = outcome]
    /\ caller' = Idle
    /\ UNCHANGED <<now, running, stop_event, jobs, one_time_reminders, threads,
                   next_id, delivered, pre_stop, reload_fired>>
    /\ UNCHANGED telegram

(***************************************************************************)
(* The agent tool cancel_reminder(reminder_id): it looks the tag up in     *)
(* the schedule and clears it there.                                       *)
(***************************************************************************)
(* reminder_id of cancel_reminder: an id handed out, a string that is no
   tag at all, or one of the kind tags every job carries *)
CancelInputs == DOMAIN hist \cup {"no_such_id", "reminder", "recurring"}

CancelReminder(tag) ==
    /\ caller.pc = "idle"
    /\ events < MaxEvents
    /\ events' = events + 1
    /\ IF Len(GetJobs(jobs, tag)) > 0
       THEN /\ jobs' = ClearTag(jobs, tag)
            /\ ret' = [NoRet EXCEPT !.op = "cancel", !.id = tag]
            /\ hist' = IF tag \in DOMAIN hist
                       THEN MarkCancelled(hist, {tag})
                       ELSE Taint(hist, JobRids(GetJobs(jobs, tag)))
       ELSE /\ ret' = [NoRet EXCEPT !.op = "cancel", !.id = tag,
                                    !.status = "not_found"]
            /\ UNCHANGED <<jobs, hist>>
    /\ UNCHANGED <<now, running, stop_event, one_time_reminders,
                   recurring_reminders, threads, caller, next_id, delivered,
                   pre_stop, reload_fired>>
    /\ UNCHANGED telegram

(***************************************************************************)
(* start(): a new stop event, a new thread, the flag, then the reload of   *)
(* both tables on the calling thread.                                      *)
(***************************************************************************)
(* _load_reminders: once the one-time rows are done, the recurring table is
   read; only the calling thread ever writes that table *)
AfterOneTime(c) ==
    IF c.pc = "load_one" /\ Len(c.rows) = 0
    THEN [c EXCEPT !.pc = "load_rec", !.rows = RowsInOrder(recurring_reminders)]
    ELSE c

FreeSlots == {t \in Threads : threads[t].pc \in {"none", "crashed"}}

Start ==
    /\ caller.pc = "idle"
    /\ events < MaxEvents
    /\ events' = events + 1
    /\ IF ShouldStart(running)
       THEN /\ FreeSlots # {}
            /\ stop_event' = "clear"
            /\ threads' = [threads EXCEPT
                              ![CHOOSE t \in FreeSlots : \A u \in FreeSlots : t <= u] = Sleeping]
            /\ running' = TRUE
            /\ caller' = AfterOneTime(
                              [Idle EXCEPT !.pc = "load_one",
                                           !.rows = RowsInOrder(one_time_reminders),
                                           !.after_stop = (ret.op = "stop" /\ ret.status = "ok")])
            /\ pre_stop' = IF ret.op = "stop" /\ ret.status = "ok" THEN pre_stop ELSE {}
            /\ UNCHANGED ret
       ELSE /\ ret' = [NoRet EXCEPT !.op = "start", !.status = "noop"]
            /\ UNCHANGED <<stop_event, threads, running, caller, pre_stop>>
    /\ UNCHANGED <<now, jobs, one_time_reminders, recurring_reminders, next_id,
                   delivered, hist, reload_fired>>
    /\ UNCHANGED telegram

(* _load_one_time_reminders, one row of the loop *)
LoadOneTimeRow ==
    /\ caller.pc = "load_one"
    /\ Len(caller.rows) > 0
    /\ LET row == Head(caller.rows)
       IN  IF StillDue(row.due_time, now)
           THEN /\ jobs' = Append(jobs, MkOneTimeJob(FreshJid, row.id,
                                                     row.due_time - now, now))
                /\ caller' = AfterOneTime([caller EXCEPT !.rows = Tail(@)])
                /\ UNCHANGED <<one_time_reminders, delivered, hist,
                               reload_fired, pre_stop, ret, events>>
           ELSE /\ delivered' = Bump(delivered, row.id)
                /\ jobs' = ClearTag(jobs, row.id)
                /\ \E outcome \in Outcomes(events) :
                      /\ events' = Fault(events, outcome)
                      /\ one_time_reminders' =
                             IF outcome = "ok"
                             THEN DeleteRow(one_time_reminders, row.id)
                             ELSE one_time_reminders
                      /\ hist' = IF outcome = "ok" THEN hist
                                 ELSE Taint(hist, {row.id})
                      /\ IF outcome = "raise"
                         THEN /\ caller' = Idle
                              /\ ret' = [NoRet EXCEPT !.op = "start",
                                                      !.status = "raised",
                                                      !.store = outcome]
                              /\ reload_fired' = {}
                              /\ pre_stop' = {}
                         ELSE /\ caller' = AfterOneTime([caller EXCEPT !.rows = Tail(@)])
                              /\ reload_fired' = reload_fired \cup {row.id}
                              /\ UNCHANGED <<ret, pre_stop>>
    /\ UNCHANGED <<now, running, stop_event, recurring_reminders, threads,
                   next_id>>
    /\ UNCHANGED telegram

(* _load_recurring_reminders, one row of the loop: create_recurring_reminder
   with the stored id, interval and time_spec *)
LoadRecurringRow ==
    /\ caller.pc = "load_rec"
    /\ Len(caller.rows) > 0
    /\ LET row == Head(caller.rows)
           p == Parsed[[interval |-> row.interval, time_spec |-> row.time_spec]]
       IN  CASE p.res = "job" ->
                  /\ \E nr \in FirstRuns(p, now) :
                        jobs' = Append(jobs, MkRecurringJob(FreshJid, row.id, p.period, nr))
                  /\ \E outcome \in Outcomes(events) :
                        /\ events' = Fault(events, outcome)
                        /\ recurring_reminders' =
                               IF outcome = "ok"
                               THEN Upsert(recurring_reminders,
                                           [id |-> row.id, interval |-> row.interval,
                                            time_spec |-> row.time_spec])
                               ELSE recurring_reminders
                        /\ IF outcome = "raise"
                           THEN /\ caller' = Idle
                                /\ ret' = [NoRet EXCEPT !.op = "start",
                                                        !.status = "raised",
                                                        !.store = outcome]
                                /\ reload_fired' = {}
                                /\ pre_stop' = {}
                           ELSE /\ caller' = [caller EXCEPT !.rows = Tail(@)]
                                /\ UNCHANGED <<ret, reload_fired, pre_stop>>
             [] p.res = "none" ->
                  /\ caller' = [caller EXCEPT !.rows = Tail(@)]
                  /\ UNCHANGED <<jobs, recurring_reminders, ret, reload_fired,
                                 pre_stop, events>>
             [] p.res = "raise" ->
                  /\ caller' = Idle
                  /\ ret' = [NoRet EXCEPT !.op = "start", !.status = "raised"]
                  /\ reload_fired' = {}
                  /\ pre_stop' = {}
                  /\ UNCHANGED <<jobs, recurring_reminders, events>>
    /\ UNCHANGED <<now, running, stop_event, one_time_reminders, threads,
                   next_id, delivered, hist>>
    /\ UNCHANGED telegram

(* start() returns *)
LoadDone ==
    /\ caller.pc = "load_rec"
    /\ Len(caller.rows) = 0
    /\ caller' = Idle
    /\ ret' = [NoRet EXCEPT !.op = "start"]
    /\ pre_stop' = {}
    /\ reload_fired' = {}
    /\ UNCHANGED <<now, running, stop_event, jobs, one_time_reminders,
                   recurring_reminders, threads, next_id, delivered, hist>>
    /\ UNCHANGED events
    /\ UNCHANGED telegram

(***************************************************************************)
(* stop(): set the event, drop the flag, clear the whole schedule.         *)
(***************************************************************************)
Stop ==
    /\ caller.pc = "idle"
    /\ events < MaxEvents
    /\ events' = events + 1
    /\ IF ShouldStop(running)
       THEN /\ stop_event' = "set"
            /\ running' = FALSE
            /\ jobs' = <<>>
            /\ pre_stop' = JobRids(jobs)
            /\ hist' = Taint(hist, DOMAIN hist)
            /\ ret' = [NoRet EXCEPT !.op = "stop"]
       ELSE /\ ret' = [NoRet EXCEPT !.op = "stop", !.status = "noop"]
            /\ UNCHANGED <<stop_event, running, jobs, pre_stop, hist>>
    /\ UNCHANGED <<now, one_time_reminders, recurring_reminders, threads,
                   caller, next_id, delivered, reload_fired>>
    /\ UNCHANGED telegram

(***************************************************************************)
(* The specification.                                                      *)
(***************************************************************************)
Next ==
    \/ Tick
    \/ \E t \in Threads : Poll(t)
    \/ \E t \in Threads : FireCall(t)
    \/ \E t \in Threads : FireClear(t)
    \/ \E t \in Threads : FireDelete(t)
    \/ \E off \in DueOffsets : CreateOneTime(off)
    \/ CreateOneTimeWrite
    \/ \E inp \in RecurringInputs : CreateRecurring(inp)
    \/ CreateRecurringWrite
    \/ \E tag \in CancelInputs : CancelReminder(tag)
    \/ Start
    \/ LoadOneTimeRow
    \/ LoadRecurringRow
    \/ LoadDone
    \/ Stop

Spec == Init /\ [][Next]_vars

(* a scheduler thread that can take its next step takes it: the loop of
   _run_continuously and the job actions it runs are not starved *)
Fairness ==
    \A t \in Threads :
        /\ WF_vars(Poll(t))
        /\ WF_vars(FireCall(t))
        /\ WF_vars(FireClear(t))
        /\ WF_vars(FireDelete(t))

FairSpec == Spec /\ Fairness

(***************************************************************************)
(* delete_one_time_reminder / delete_recurring_reminder called directly.   *)
(* Inside the service only the one-time job and the reload call the        *)
(* first; here both are operations of the caller.                          *)
(***************************************************************************)
DeleteInputs == DOMAIN hist \cup {"no_such_id"}

(* success = True after execute and commit, False on sqlite3.Error *)
DeleteResult(outcome) ==
    CASE outcome = "ok" -> "true"
      [] outcome = "error" -> "false"
      [] outcome = "raise" -> "raised"

(* schedule.clear(reminder_id) *)
DeleteCall(op, id) ==
    /\ caller.pc = "idle"
    /\ events < MaxEvents
    /\ events' = events + 1
    /\ jobs' = ClearTag(jobs, id)
    /\ hist' = Taint(hist, {id})
    /\ caller' = [Idle EXCEPT !.pc = op, !.id = id]
    /\ UNCHANGED <<now, running, stop_event, one_time_reminders,
                   recurring_reminders, threads, ret, next_id, delivered,
                   pre_stop, reload_fired>>
    /\ UNCHANGED telegram

(* connect, DELETE ... WHERE id = ?, commit, return success *)
DeleteStatement ==
    /\ caller.pc \in {"delete_one_time", "delete_recurring"}
    /\ \E outcome \in Outcomes(events) :
          /\ events' = Fault(events, outcome)
          /\ IF caller.pc = "delete_one_time"
             THEN /\ one_time_reminders' =
                        IF outcome = "ok"
                        THEN DeleteRow(one_time_reminders, caller.id)
                        ELSE one_time_reminders
                  /\ UNCHANGED recurring_reminders
             ELSE /\ recurring_reminders' =
                        IF outcome = "ok"
                        THEN DeleteRow(recurring_reminders, caller.id)
                        ELSE recurring_reminders
                  /\ UNCHANGED one_time_reminders
          /\ ret' = [NoRet EXCEPT !.op = caller.pc, !.id = caller.id,
                                  !.status = DeleteResult(outcome),
                                  !.store = outcome]
    /\ caller' = Idle
    /\ UNCHANGED <<now, running, stop_event, jobs, threads, next_id,
                   delivered, hist, pre_stop, reload_fired>>
    /\ UNCHANGED telegram

DeleteNext ==
    \/ Next
    \/ \E id \in DeleteInputs : DeleteCall("delete_one_time", id)
    \/ \E id \in DeleteInputs : DeleteCall("delete_recurring", id)
    \/ DeleteStatement

DeleteSpec == Init /\ [][DeleteNext]_vars

(***************************************************************************)
(* create_recurring_reminder on its own, over the inputs of the grammar.   *)
(***************************************************************************)
ParseNext ==
    \/ \E inp \in ParseInputs : CreateRecurring(inp)
    \/ CreateRecurringWrite

ParseSpec == Init /\ [][ParseNext]_vars

\* ---------------------------------------------------------------------
\* The Telegram bridge (tools/telegram/telegram.py).  The bot runs its
\* handlers on worker threads; is_authorized reads and writes the closure
\* variable _authorized_user_id without a lock, so the test and the
\* assignment are separate steps of a handler.
\* ---------------------------------------------------------------------

serviceVars ==
    <<now, running, stop_event, jobs, one_time_reminders, recurring_reminders,
      threads, caller, ret, next_id, delivered, hist, pre_stop, reload_fired,
      events>>

Users == 1..MaxUsers

Handlers == 1..MaxHandlers

IdleHandler == [pc |-> "idle", user |-> 0, kind |-> "none"]

\* create_telegram_bot(message_queue, token, config, authorized_user_id):
\* a is the configured user id, 0 for None.
create_telegram_bot(a) ==
    /\ ~telegram.created
    /\ telegram' = [NoTelegram EXCEPT !.created = TRUE, !.authorized = a,
                                      !.saved = a,
                                      !.handlers = [h \in Handlers |-> IdleHandler]]
    /\ UNCHANGED serviceVars

\* what a worker thread holds once it has picked up a message of user u
Dispatched(h, u, kind) ==
    [telegram EXCEPT !.handlers[h] = [pc |-> "test", user |-> u, kind |-> kind],
                     !.received = @ + 1]

\* handle_message(message): a worker thread picks up a message of user u
\* that is no command and calls is_authorized.
handle_message(h, u) ==
    /\ telegram.created
    /\ telegram.handlers[h].pc = "idle"
    /\ telegram.received < MaxMessages
    /\ telegram' = Dispatched(h, u, "text")
    /\ UNCHANGED serviceVars

\* send_welcome(message): the same for a /start or /help command.
send_welcome(h, u) ==
    /\ telegram.created
    /\ telegram.handlers[h].pc = "idle"
    /\ telegram.received < MaxMessages
    /\ telegram' = Dispatched(h, u, "command")
    /\ UNCHANGED serviceVars

\* is_authorized: if _authorized_user_id is None; if user_id ==
\* _authorized_user_id; otherwise the user is told off and the handler
\* returns.
is_authorized(h) ==
    /\ telegram.created
    /\ telegram.handlers[h].pc = "test"
    /\ telegram' = [telegram EXCEPT !.handlers[h] =
            IF telegram.authorized = 0 THEN [@ EXCEPT !.pc = "authorize"]
            ELSE IF @.user = telegram.authorized THEN [@ EXCEPT !.pc = "accepted"]
            ELSE IdleHandler]
    /\ UNCHANGED serviceVars

\* is_authorized, first-user branch: _authorized_user_id = user_id, the
\* id is saved to the config, return True.
authorize_first_user(h) ==
    /\ telegram.created
    /\ telegram.handlers[h].pc = "authorize"
    /\ telegram' = [telegram EXCEPT !.authorized = telegram.handlers[h].user,
                                    !.saved = telegram.handlers[h].user,
                                    !.handlers[h].pc = "accepted"]
    /\ UNCHANGED serviceVars

\* the rest of the handler: handle_message puts the text on the message
\* queue, send_welcome replies to the user.
handler_body(h) ==
    /\ telegram.created
    /\ telegram.handlers[h].pc = "accepted"
    /\ telegram' = [telegram EXCEPT
            !.queue = IF telegram.handlers[h].kind = "text"
                      THEN Append(@, telegram.handlers[h].user) ELSE @,
            !.handlers[h] = IdleHandler]
    /\ UNCHANGED serviceVars

TelegramNext ==
    \/ \E a \in {0} \cup Users : create_telegram_bot(a)
    \/ \E h \in Handlers, u \in Users : handle_message(h, u)
    \/ \E h \in Handlers, u \in Users : send_welcome(h, u)
    \/ \E h \in Handlers : is_authorized(h)
    \/ \E h \in Handlers : authorize_first_user(h)
    \/ \E h \in Handlers : handler_body(h)

TelegramSpec == Init /\ [][TelegramNext]_vars

\* ---------------------------------------------------------------------
\* The reminder tools working on the shared schedule
\* (tools/reminder/reminder_tool.py).
\* ---------------------------------------------------------------------

\* due_time values handed to set_reminder, as offsets from the current time.
ListOffsets == DueOffsets \cup {2}

\* set_reminder: a due time in the future registers a job tagged
\* 'reminder' and the id; any other due time calls the callback at once
\* and registers nothing.
SetReminder(off) ==
    /\ caller.pc = "idle"
    /\ events < MaxEvents
    /\ events' = events + 1
    /\ next_id <= MaxListed
    /\ LET id == OneTimeId(next_id)
           due == now + off
           seconds == due - now
       IN  /\ IF due > now
              THEN /\ jobs' = Append(jobs, MkOneTimeJob(FreshJid, id, seconds, now))
                   /\ UNCHANGED delivered
              ELSE /\ delivered' = Bump(delivered, id)
                   /\ UNCHANGED jobs
           /\ hist' = hist @@ (id :> NewHist(seconds, due, running))
           /\ ret' = [NoRet EXCEPT !.op = "set_reminder", !.id = id,
                                   !.job = (due > now)]
    /\ next_id' = next_id + 1
    /\ UNCHANGED <<now, running, stop_event, one_time_reminders,
                   recurring_reminders, threads, caller, pre_stop,
                   reload_fired>>
    /\ UNCHANGED telegram

\* get_reminders: the one-time section of the listing, one entry per job
\* tagged 'reminder', in the order schedule.get_jobs returns them.
get_reminders(js) ==
    LET one_time_jobs == GetJobs(js, "reminder")
    IN  [i \in DOMAIN one_time_jobs |->
            [id |-> one_time_jobs[i].rid, next_run |-> one_time_jobs[i].next_run]]

ListNext ==
    \/ \E off \in ListOffsets : SetReminder(off)
    \/ \E tag \in CancelInputs : CancelReminder(tag)
    \/ Tick

ListSpec == Init /\ [][ListNext]_vars

(***************************************************************************)
(* Properties.                                                             *)
(***************************************************************************)
(* what the service touches: the flag, the stop event, the threads, the
   schedule and the two tables *)
service ==
    <<running, stop_event, threads, jobs, one_time_reminders, recurring_reminders>>

tables == <<one_time_reminders, recurring_reminders>>

(* neither the create call for id nor a run of a job of id is in progress *)
Quiet(id) ==
    /\ caller.id # id
    /\ \A t \in Threads :
          threads[t].pc = "run" => Head(threads[t].todo).rid # id

(* the ids get_reminders lists: the jobs tagged reminder or recurring *)
ListedIds(js) == JobRids(GetJobs(js, "reminder")) \cup JobRids(GetJobs(js, "recurring"))

(* a step in which the delivery callback is invoked for id, by the run of
   a job that is in the schedule at that moment or by the reload of a
   stored row *)
Delivery(id) ==
    \/ \E t \in Threads :
          /\ threads[t].pc = "run"
          /\ threads[t].stage = "call"
          /\ Head(threads[t].todo).rid = id
          /\ \E i \in 1..Len(jobs) : jobs[i] = Head(threads[t].todo)
          /\ threads'[t] # threads[t]
    \/ /\ caller.pc = "load_one"
       /\ Len(caller.rows) > 0
       /\ Head(caller.rows).id = id
       /\ ~StillDue(Head(caller.rows).due_time, now)
       /\ caller' # caller

(* C1: a one-time reminder created with a due time in the future on a
   Running service, with no cancel, stop, crash or store failure since, is
   delivered at most once and not before its due time, and once it has
   fired and the create call has returned, it has no row in the store and
   no job in the schedule. *)
C1_FiresOnceAndIsGone ==
    \A id \in DOMAIN hist \cap OneTimeIds :
        (hist[id].status = "clean" /\ hist[id].seconds > 0) =>
            /\ delivered[id] <= 1
            /\ delivered[id] >= 1 => now >= hist[id].due
            /\ (delivered[id] >= 1 /\ Quiet(id)) =>
                   /\ ~HasRow(one_time_reminders, id)
                   /\ id \notin JobTags(jobs)

(* C2: create_one_time_reminder with a due time in the past or equal to
   now has invoked the delivery callback by the time it returns, and
   returns the id with no job. *)
C2_PastDueDeliveredInCall ==
    (ret.op = "create_one_time" /\ hist[ret.id].seconds <= 0) =>
        /\ delivered[ret.id] >= 1
        /\ ret.job = FALSE

(* C3: create_one_time_reminder with a due time in the past or equal to
   now leaves both tables as they were, and no row is ever stored for
   that reminder. *)
C3_PastDueNeverPersisted ==
    /\ [](\A id \in DOMAIN hist \cap OneTimeIds :
             hist[id].seconds <= 0 => ~HasRow(one_time_reminders, id))
    /\ [][ \A off \in DueOffsets :
              (off <= 0 /\ CreateOneTime(off)) => UNCHANGED tables ]_vars

(* a create call with due time equal to now has returned *)
C3_Witness ==
    /\ caller.pc = "idle"
    /\ ret.op = "create_one_time"
    /\ hist[ret.id].seconds = 0
    /\ hist[ret.id].due = now

(* C4: cancel_reminder(id), for the id a create call has just returned,
   leaves no job tagged id in the schedule and no row for id in the store,
   and the listing of pending reminders does not show id. *)
C4_CancelRemovesEverywhere ==
    [][ \A id \in DOMAIN hist :
           (CancelReminder(id)
              /\ ret.op \in {"create_one_time", "create_recurring"}
              /\ ret.id = id /\ ret.job)
           => /\ id \notin JobTags(jobs')
              /\ id \notin ListedIds(jobs')
              /\ ~HasRow(one_time_reminders', id)
              /\ ~HasRow(recurring_reminders', id) ]_vars

(* C5: once cancel_reminder(id) has returned, the delivery callback is
   never invoked for id again, neither by a job of the schedule nor by the
   reload of a later start(); a run that had already picked the job when
   the cancel was made is not counted here. *)
C5_NoDeliveryAfterCancel ==
    [][ \A id \in DOMAIN hist :
           hist[id].status = "cancelled" => ~Delivery(id) ]_vars

(* C6: with every reminder created on a Running service, when a start()
   that directly follows a stop() returns, every reminder that was in the
   schedule at the stop is in the schedule again under its id, except the
   one-time reminders whose due time has passed: those were delivered
   exactly once by the reload and have no row and no job; and the schedule
   holds no other id. *)
C6_RoundTrip ==
    [][ (LoadDone /\ caller.after_stop
           /\ \A id \in DOMAIN hist : hist[id].on_running) =>
           /\ \A id \in pre_stop :
                 IF id \in reload_fired
                 THEN /\ id \in OneTimeIds
                      /\ hist[id].due <= now
                      /\ delivered[id] = 1
                      /\ ~HasRow(one_time_reminders, id)
                      /\ id \notin JobTags(jobs)
                 ELSE \/ id \in JobTags(jobs)
                      \/ id \in OneTimeIds /\ delivered[id] >= 1
           /\ JobRids(jobs) \subseteq pre_stop ]_vars

(* the intervals the tools document: a bare unit, a weekday, or a number
   followed by a unit, singular or plural *)
GrammarUnits == {S_second, S_minute, S_hour, S_day}

NamesGrammarCase(interval) ==
    LET low == Lower(interval)
        parts == Split(low)
    IN  \/ low \in GrammarUnits \cup Weekdays
        \/ /\ Len(parts) = 2
           /\ IsDigit(parts[1])
           /\ \E u \in GrammarUnits : parts[2] \in {u, Append(u, "s")}

(* the inputs whose interval is none of the documented cases *)
OutsideGrammar == {inp \in RecurringInputs : ~NamesGrammarCase(inp.interval)}

(* C7: create_recurring_reminder with an interval that is none of the
   cases of the grammar returns without a job and leaves the schedule and
   both tables as they were. *)
C7_UnknownIntervalRejected ==
    [][ \A inp \in OutsideGrammar :
           CreateRecurring(inp) =>
               /\ ret'.op = "create_recurring"
               /\ ret'.job = FALSE
               /\ caller'.pc = "idle"
               /\ UNCHANGED <<jobs, one_time_reminders, recurring_reminders>> ]_vars

(* an interval outside the grammar was rejected while a job was scheduled *)
C7_Witness ==
    /\ ret.op = "create_recurring"
    /\ ret.status = "rejected"
    /\ Len(jobs) > 0

(* C8: when the write of the row fails in a create call, the call reports
   failure and no job of that reminder is in the schedule. *)
C8_FailedWriteRegistersNothing ==
    (ret.op \in {"create_one_time", "create_recurring"}
       /\ ret.store \in {"error", "raise"}) =>
        /\ ret.job = FALSE
        /\ ret.id \notin JobTags(jobs)

(* C9: the action of a due job that raises does not end the scheduler
   thread, and the other jobs due in the same run_pending are still run. *)
C9_ThreadSurvivesJobFailure ==
    \A t \in Threads : threads[t].pc # "crashed"

(* C10: start() on a Running service and stop() on a Stopped service are
   no-ops: no thread is spawned, no reminder is registered again, and the
   flag, the stop event, the schedule and both tables stay as they were. *)
C10_StartStopNoop ==
    [][ ((Start /\ running) \/ (Stop /\ ~running)) => UNCHANGED service ]_vars

(* start() was called on a Running service that has a job scheduled *)
C10_Witness ==
    /\ ret.op = "start"
    /\ ret.status = "noop"
    /\ running
    /\ Len(jobs) > 0

(* a scheduler loop is alive in slot t *)
Alive(t) == threads[t].pc \notin {"none", "crashed"}

(* C11: stop() on a Running service drops the flag, sets the stop event
   and leaves the schedule empty, and every scheduler loop alive at that
   moment eventually ends. *)
C11_StopEndsLoop ==
    /\ [][ (Stop /\ running) =>
              /\ ~running'
              /\ stop_event' = "set"
              /\ jobs' = <<>> ]_vars
    /\ \A t \in Threads :
          (ret.op = "stop" /\ ret.status = "ok" /\ Alive(t)) ~> ~Alive(t)

(* the counted intervals of the grammar: a positive count and one of the
   units second, minute, hour, day, week, singular or plural, in any
   letter case, with an empty time_spec *)
GrammarCounted ==
    {inp \in ParseInputs :
        LET parts == Split(Lower(inp.interval))
        IN  /\ inp.time_spec = S_empty
            /\ Len(parts) = 2
            /\ IsDigit(parts[1]) /\ StrToInt(parts[1]) > 0
            /\ \E u \in UnitWords : parts[2] \in {u, Append(u, "s")}}

(* C12: create_recurring_reminder with "<N> <unit>", N positive and the
   unit any of second, minute, hour, day, week, singular or plural, in any
   letter case, and an empty time_spec, registers a recurring job under the
   new id and goes on to write the row. *)
C12_CountedAccepted ==
    [][ \A inp \in GrammarCounted :
           CreateRecurring(inp) =>
               /\ caller'.pc = "rec_write"
               /\ \E i \in 1..Len(jobs') :
                     /\ jobs'[i].rid = caller'.id
                     /\ jobs'[i].kind = "recurring" ]_vars

(* the inputs with a time_spec and an interval that takes none: bare
   "second" or a counted interval *)
TimeSpecNotTaken ==
    {inp \in ParseInputs :
        LET parts == Split(Lower(inp.interval))
        IN  /\ inp.time_spec # S_empty
            /\ \/ Lower(inp.interval) = S_second
               \/ /\ Len(parts) = 2
                  /\ IsDigit(parts[1]) /\ StrToInt(parts[1]) > 0
                  /\ \E u \in UnitWords : parts[2] \in {u, Append(u, "s")}}

(* C13: create_recurring_reminder with a non-empty time_spec and bare
   "second" or a counted interval is rejected: the call ends without a job
   (an exception is counted as a rejection here), and the schedule and both
   tables stay as they were. *)
C13_TimeSpecRejected ==
    [][ \A inp \in TimeSpecNotTaken :
           CreateRecurring(inp) =>
               /\ ret'.op = "create_recurring"
               /\ ret'.status \in {"rejected", "raised"}
               /\ ret'.job = FALSE
               /\ UNCHANGED <<jobs, one_time_reminders, recurring_reminders>> ]_vars

(* the ids of the reminders that exist: those with a job or a row *)
ExistingIds ==
    JobRids(jobs) \cup {r.id : r \in one_time_reminders}
                 \cup {r.id : r \in recurring_reminders}

(* C14: cancel_reminder with a string that is not the id of an existing
   reminder reports "not found" and leaves the schedule and both tables as
   they were. *)
C14_UnknownIdNotFound ==
    [][ \A tag \in CancelInputs :
           (CancelReminder(tag) /\ tag \notin ExistingIds) =>
               /\ ret'.status = "not_found"
               /\ UNCHANGED <<jobs, one_time_reminders, recurring_reminders>> ]_vars

(* the ids of the recurring jobs in the schedule *)
RecurringRids(js) == JobRids(GetJobs(js, "recurring"))

(* a step of a scheduler thread *)
ThreadStep ==
    \E t \in Threads : Poll(t) \/ FireCall(t) \/ FireClear(t) \/ FireDelete(t)

(* C15: no step of a scheduler thread, the firing of a recurring job
   included, removes a recurring job from the schedule or changes the
   recurring table; and when a start() that left Stopped returns, every
   row of the recurring table has a recurring job under its id. *)
C15_RecurringPersists ==
    /\ [][ ThreadStep =>
              /\ RecurringRids(jobs') = RecurringRids(jobs)
              /\ UNCHANGED recurring_reminders ]_vars
    /\ [][ LoadDone =>
              \A r \in recurring_reminders : r.id \in RecurringRids(jobs') ]_vars

(* a recurring reminder reloaded by start() has fired and is still there *)
C15_Witness ==
    /\ ret.op = "start" /\ ret.status = "ok"
    /\ \E r \in recurring_reminders :
          /\ delivered[r.id] >= 1
          /\ r.id \in RecurringRids(jobs)

(* C16: with the store working, no call of create_recurring_reminder ends
   with an exception raised to the caller, whatever interval and time_spec
   it is given. *)
C16_NeverRaises ==
    (ret.op = "create_recurring" /\ ret.store # "raise") => ret.status # "raised"

(* the table a delete call in progress works on *)
DeleteTable ==
    IF caller.pc = "delete_one_time" THEN one_time_reminders ELSE recurring_reminders

(* C17: with the store working, delete_one_time_reminder(id) and
   delete_recurring_reminder(id) return True when a row with that id was
   in the table and has been removed, and False when there was none. *)
C17_DeleteReportsRemoval ==
    [][ (DeleteStatement /\ ret'.store = "ok") =>
           /\ (ret'.status = "true") <=> HasRow(DeleteTable, caller.id)
           /\ ret'.status \in {"true", "false"} ]_vars

\* C18: the listing returns the pending one-time reminders ordered by next
\* fire time, earliest first, whatever order they were created in.
C18_ListingAscending ==
    LET listing == get_reminders(jobs)
    IN  \A i, j \in DOMAIN listing :
            i < j => listing[i].next_run <= listing[j].next_run

\* The create calls between registering the job and writing the row.
CreateWrites == {"create_write", "rec_write"}

\* C19: the store write of a create happens before its job is visible to
\* the scheduler thread, so the scheduler never fires a reminder (nor
\* deletes its row) while the create call of that reminder has not yet
\* written the row.
C19_WriteBeforeFire ==
    [][ \A t \in Threads :
          (FireCall(t) \/ FireDelete(t)) =>
              ~(caller.pc \in CreateWrites
                  /\ Head(threads[t].todo).rid = caller.id) ]_vars

\* A scheduler thread is inside run_pending: it has collected the runnable
\* jobs and has not yet run the last of them.
Scanning == \E t \in Threads : threads[t].pc = "run"

\* The steps of the calling thread that register, remove or clear jobs.
CallerStep ==
    \/ \E off \in DueOffsets : CreateOneTime(off)
    \/ \E inp \in RecurringInputs : CreateRecurring(inp)
    \/ \E tag \in CancelInputs : CancelReminder(tag)
    \/ LoadOneTimeRow
    \/ LoadRecurringRow
    \/ Stop

\* C20: registration by create, removal by cancel and clearing by stop are
\* mutually exclusive with the scan of run_pending: no step of the calling
\* thread changes the schedule while a scheduler thread is inside a scan.
C20_NoMutationInsideScan ==
    [][ (CallerStep /\ jobs' # jobs) => ~Scanning ]_vars

\* The ids that have a row in the durable store.
StoredIds ==
    {r.id : r \in one_time_reminders} \cup {r.id : r \in recurring_reminders}

\* C21: whenever the service is running and no create, fire, cancel or
\* load is in progress, the ids with a job in the schedule are exactly the
\* ids with a row in the store.
C21_ScheduleMatchesStore ==
    (running /\ caller.pc = "idle" /\ ~Scanning) => JobRids(jobs) = StoredIds

\* run_pending of some scheduler thread is executing the action of a job
\* of reminder id.
Executing(id) ==
    \E t \in Threads :
        threads[t].pc = "run" /\ Head(threads[t].todo).rid = id

\* The runs of jobs of reminder id that the scheduler threads have already
\* selected and whose delivery callback is still to be invoked.
PendingCalls(ths, id) ==
    {<<t, i>> \in Threads \X (1..(2 * IdBound + 2)) :
        /\ ths[t].pc = "run"
        /\ i <= Len(ths[t].todo)
        /\ ths[t].todo[i].rid = id
        /\ (i > 1 \/ ths[t].stage = "call")}

\* C22: when cancel_reminder(id) is called while run_pending is executing
\* the action of a job of id, at most one delivery for id is still to
\* come, and no job tagged id is left in the schedule.
C22_CancelDuringRun ==
    [][ \A id \in DOMAIN hist :
           (CancelReminder(id) /\ Executing(id)) =>
               /\ Cardinality(PendingCalls(threads', id)) <= 1
               /\ id \notin JobTags(jobs') ]_vars

\* The job a scheduler thread is running.
FiredJob(t) == Head(threads[t].todo)

\* C23: when a one-time job fires, the delivery callback is invoked first
\* (the job and the row are still there), then the job is removed from the
\* schedule (the row is still there), and only then the row is deleted
\* from the store: the delete statement runs after the delivery and with
\* the job already out of the schedule.
C23_FireOrder ==
    [][ \A t \in Threads :
          /\ (FireCall(t) /\ FiredJob(t).kind = "reminder") =>
                 /\ delivered'[FiredJob(t).rid] >= 1
                 /\ UNCHANGED <<jobs, one_time_reminders>>
          /\ FireClear(t) =>
                 /\ delivered[FiredJob(t).rid] >= 1
                 /\ FiredJob(t).rid \notin JobTags(jobs')
                 /\ UNCHANGED one_time_reminders
          /\ FireDelete(t) =>
                 /\ delivered[FiredJob(t).rid] >= 1
                 /\ \A i \in 1..Len(jobs) : jobs[i].jid # FiredJob(t).jid ]_vars

\* a one-time reminder with a future due time has been fired by its job,
\* all three steps done: delivered, no job, no row
C23_Witness ==
    \E id \in DOMAIN hist \cap OneTimeIds :
        /\ hist[id].seconds > 0
        /\ id \notin reload_fired
        /\ delivered[id] >= 1
        /\ id \notin JobTags(jobs)
        /\ ~HasRow(one_time_reminders, id)
        /\ ~Scanning

\* C24: when the store delete of delete_one_time_reminder or
\* delete_recurring_reminder fails, no job tagged with the id is left in
\* the schedule and the row stays; and the reload of a start() that finds
\* a one-time row whose due time has passed delivers it once, leaves no
\* job for it, and deletes the row when the store accepts the delete.
C24_FailedDeleteAndStaleRow ==
    /\ [][ (DeleteStatement /\ ret'.store \in {"error", "raise"}) =>
              /\ caller.id \notin JobTags(jobs')
              /\ UNCHANGED tables ]_vars
    /\ [][ (LoadOneTimeRow /\ Head(caller.rows).due_time <= now) =>
              LET id == Head(caller.rows).id
              IN  /\ delivered' = Bump(delivered, id)
                  /\ id \notin JobTags(jobs')
                  /\ events' = events => ~HasRow(one_time_reminders', id) ]_vars

\* the last public call was a delete_one_time_reminder whose store delete
\* failed; the start() now in progress has delivered the stale row and
\* deleted it
C24_Witness ==
    /\ ret.op = "delete_one_time"
    /\ ret.store = "error"
    /\ caller.pc = "load_rec"
    /\ ret.id \in reload_fired
    /\ delivered[ret.id] >= 1
    /\ ~HasRow(one_time_reminders, ret.id)
    /\ ret.id \notin JobTags(jobs)

\* the counted intervals whose count is zero, such as "0 hours"
ZeroCounted ==
    {inp \in ParseInputs :
        LET parts == Split(Lower(inp.interval))
        IN  /\ Len(parts) = 2
            /\ IsDigit(parts[1]) /\ StrToInt(parts[1]) = 0}

\* C25: create_recurring_reminder with a counted interval whose count is
\* zero is rejected: the call returns without a job, and the schedule and
\* both tables stay as they were.
C25_ZeroCountRejected ==
    [][ \A inp \in ZeroCounted :
           CreateRecurring(inp) =>
               /\ ret'.op = "create_recurring"
               /\ ret'.status = "rejected"
               /\ ret'.job = FALSE
               /\ UNCHANGED <<jobs, one_time_reminders, recurring_reminders>> ]_vars

\* C26: the schedule never holds more than one job tagged with the same
\* reminder id.
C26_OneJobPerId ==
    \A id \in AllIds : Len(GetJobs(jobs, id)) <= 1

\* the scheduler loops that are alive
AliveThreads == {t \in Threads : Alive(t)}

\* C27: at most one scheduler loop is alive at a time; a loop that a
\* stop() has told to end may still sleep for a moment, but from some
\* point on there is never more than one loop alive.
C27_OneLoopThread ==
    <>[](Cardinality(AliveThreads) <= 1)

\* stop() has returned and start() has not been called since
Stopped == ~running /\ stop_event = "set" /\ caller.pc = "idle"

\* C28: between the return of stop() and the next start() the delivery
\* callback is never invoked: no scheduler thread runs a job action.
C28_NoDeliveryWhileStopped ==
    [][ Stopped => \A t \in Threads : ~FireCall(t) ]_vars

\* a delete call of one kind made with the id of a reminder of the other
\* kind
CrossKindDelete(id) ==
    \/ id \in RecurringIds /\ DeleteCall("delete_one_time", id)
    \/ id \in OneTimeIds /\ DeleteCall("delete_recurring", id)

\* C29: delete_one_time_reminder with the id of a recurring reminder, and
\* delete_recurring_reminder with the id of a one-time reminder, leave
\* the schedule and both tables as they were, for a reminder that has a
\* job and a row.
C29_CrossKindDeleteNoEffect ==
    [][ \A id \in DOMAIN hist :
           (CrossKindDelete(id) /\ id \in StoredIds /\ id \in JobRids(jobs)) =>
               UNCHANGED <<jobs, one_time_reminders, recurring_reminders>> ]_vars

\* C30: in the Telegram bridge an authorized user id, once set, never
\* changes, and every message put on the message queue comes from the
\* authorized user.
C30_SingleAuthorizedUser ==
    [][ /\ telegram.authorized # 0 => telegram'.authorized = telegram.authorized
        /\ telegram'.queue # telegram.queue =>
               telegram'.queue[Len(telegram'.queue)] = telegram'.authorized ]_vars

====
